---- MODULE Spec2Model ----
(***************************************************************************)
(* A model of main.py, the Gemini image generator script: one run of the   *)
(* script (validate -> prepare directories -> save prompt.txt -> request   *)
(* IMAGE_COUNT images one after the other -> report -> exit) against a     *)
(* filesystem, a wall clock and the remote image API.                      *)
(*                                                                         *)
(* Strings are sequences of one-character strings (tokens such as          *)
(* "Prompt: " stand for a fixed run of characters none of which is a       *)
(* newline); bytes are sequences of numbers 0..255; base64 text is a       *)
(* sequence of sextet values 0..63 with 64 for the padding character '='.  *)
(***************************************************************************)
EXTENDS Integers, Sequences, FiniteSets, TLC

\* ---------------------------------------------------------------- bounds
\* The largest IMAGE_COUNT a run is configured with.
MaxImageCount == 2
\* The most content parts an API response carries.
MaxParts == 2
\* Clock resolution: ticks per second.
TicksPerSec == 2

VARIABLES
    API_KEY,            \* os.getenv("GEMINI_API_KEY"): [isNone, s]
    OUTPUT_DIR,         \* os.getenv("IMAGE_OUTPUT_DIR"): [isNone, s]
    IMAGE_COUNT,        \* the configured image count (a setting edited in
                        \* the file; 1 as shipped)
    argv,               \* sys.argv
    now,                \* the wall clock, in ticks
    dirs,               \* the filesystem: the set of existing directories
    files,              \* the filesystem: file path -> content
    prior,              \* an earlier run of the script: [exists, t]
    pc,                 \* where the run is
    prompt,             \* main's local: sys.argv[1]
    session_dir,        \* main's local: the session directory
    i,                  \* main's loop index
    successful_images,  \* main's local: the paths generate_image returned
    exitStatus,         \* the process's exit status (-1 while it runs)
    trace               \* what the run did, in order: filesystem writes,
                        \* API requests and completions, sleeps, prints

vars == <<API_KEY, OUTPUT_DIR, IMAGE_COUNT, argv, now, dirs, files, prior, pc,
          prompt, session_dir, i, successful_images, exitStatus, trace>>

config == <<API_KEY, OUTPUT_DIR, IMAGE_COUNT, argv, prior>>

\* ------------------------------------------------------- strings, numbers
Min(a, b) == IF a < b THEN a ELSE b

Digit(d) ==
    CASE d = 0 -> "0" [] d = 1 -> "1" [] d = 2 -> "2" [] d = 3 -> "3"
      [] d = 4 -> "4" [] d = 5 -> "5" [] d = 6 -> "6" [] d = 7 -> "7"
      [] d = 8 -> "8" [] d = 9 -> "9"

\* str(n) of a natural number.
RECURSIVE Str(_)
Str(n) == IF n < 10 THEN <<Digit(n)>> ELSE Str(n \div 10) \o <<Digit(n % 10)>>

\* s.zfill(w): zeros on the left up to width w, never a cut.
RECURSIVE ZFill(_, _)
ZFill(s, w) == IF Len(s) >= w THEN s ELSE ZFill(<<"0">> \o s, w)

\* s.replace(a, b) for one-character a and b.
Replace(s, a, b) == [k \in 1..Len(s) |-> IF s[k] = a THEN b ELSE s[k]]

\* s[:n]
Take(s, n) == SubSeq(s, 1, Min(n, Len(s)))

\* "\n".join(lines)
RECURSIVE Join(_)
Join(lines) ==
    IF Len(lines) = 0 THEN <<>>
    ELSE IF Len(lines) = 1 THEN lines[1]
    ELSE lines[1] \o <<"\n">> \o Join(Tail(lines))

\* Python truthiness of an os.getenv value: None and "" are falsy.
Truthy(v) == ~v.isNone /\ Len(v.s) > 0

\* ------------------------------------------------------------ the clock
\* The clock starts at 10:59:58 of a fixed day, so that seconds, minutes and
\* hours roll over within a run.
ClockOrigin == (10 * 3600 + 59 * 60 + 58) * TicksPerSec

\* datetime.isoformat() of the clock value t: YYYY-MM-DDTHH:MM:SS, followed by
\* .ffffff when the microseconds are not zero.
IsoFormat(t) ==
    LET sec == t \div TicksPerSec
        us  == (t % TicksPerSec) * (1000000 \div TicksPerSec)
        hh  == (sec \div 3600) % 24
        mm  == (sec \div 60) % 60
        ss  == sec % 60
    IN  <<"2", "0", "2", "5", "-", "0", "1", "-", "0", "1", "T">>
        \o ZFill(Str(hh), 2) \o <<":">> \o ZFill(Str(mm), 2) \o <<":">>
        \o ZFill(Str(ss), 2)
        \o (IF us = 0 THEN <<>> ELSE <<".">> \o ZFill(Str(us), 6))

\* create_timestamped_directory with the precision cut to minutes ([:16]).
MutTimestampMinutes(t) ==
    Take(Replace(Replace(IsoFormat(t), ":", "-"), ".", "-"), 16)

\* The directory name create_timestamped_directory derives from the clock.
Timestamp(t) == Take(Replace(Replace(IsoFormat(t), ":", "-"), ".", "-"), 19)

\* ------------------------------------------------------------ the paths
\* Path(a) / b
PathJoin(a, b) == a \o <<"/">> \o b

\* The parent directories of a path and the path itself (mkdir parents=True).
WithParents(p) ==
    {SubSeq(p, 1, k) : k \in {n \in 1..Len(p) : n = Len(p) \/ p[n + 1] = "/"}}

\* Whether file path f lies directly in directory d.
InDir(f, d) ==
    /\ Len(f) > Len(d) + 1
    /\ SubSeq(f, 1, Len(d)) = d
    /\ f[Len(d) + 1] = "/"
    /\ \A k \in (Len(d) + 2)..Len(f) : f[k] # "/"

FilesIn(d) == {f \in DOMAIN files : InDir(f, d)}

\* generate_image's filename with the index not padded.
MutImageFilenameNoPad(index) == <<"image-">> \o Str(index) \o <<".png">>

\* generate_image: f"image-{str(index).zfill(2)}.png"
ImageFilename(index) == <<"image-">> \o ZFill(Str(index), 2) \o <<".png">>

PromptFilename == <<"prompt.txt">>

\* The session directory of a run whose timestamp was taken at t.
SessionDirAt(t) == PathJoin(OUTPUT_DIR.s, Timestamp(t))

\* ----------------------------------------------------------- the filesystem
\* How an open-then-write of a file (Path.write_bytes, Path.write_text) ends:
\* it succeeds, the open raises OSError (nothing is touched), or the write
\* raises OSError after the open has created or truncated the file.
WriteOutcomes == {"ok", "open_failed", "write_failed"}

\* The files after such a write of data to path p that ended as w.
FsWrite(fs, p, data, w) ==
    IF w = "open_failed" THEN fs
    ELSE [f \in DOMAIN fs \cup {p} |->
            IF f = p THEN (IF w = "ok" THEN data ELSE <<>>) ELSE fs[f]]

\* ------------------------------------------------------- the API response
\* The base64 text of the one byte b, and a text cut short (its padding is
\* incorrect: b64decode raises).
B64OfByte(b) == <<b \div 4, (b % 4) * 16, 64, 64>>
B64Truncated(b) == <<b \div 4>>

\* base64.b64decode of a text of sextets: [ok, bytes].
RECURSIVE B64Groups(_)
B64Groups(s) ==
    IF Len(s) = 0 THEN <<>>
    ELSE LET a == s[1]  b == s[2]  c == s[3]  d == s[4]
             b1 == (a * 4 + b \div 16) % 256
             b2 == ((b % 16) * 16 + c \div 4) % 256
             b3 == ((c % 4) * 64 + d) % 256
             g  == IF c = 64 THEN <<b1>>
                   ELSE IF d = 64 THEN <<b1, b2>> ELSE <<b1, b2, b3>>
         IN  g \o B64Groups(SubSeq(s, 5, Len(s)))

B64Decode(s) ==
    IF Len(s) % 4 # 0 THEN [ok |-> FALSE, bytes |-> <<>>]
    ELSE [ok |-> TRUE, bytes |-> B64Groups(s)]

\* The content parts a response may carry at position k: a part without inline
\* data, or inline data that is bytes, base64 text, or text that does not
\* decode. The payload at position k is the byte k, so that the parts of one
\* response differ.
PartsAt(k) ==
    { [inline |-> FALSE, isBytes |-> FALSE, data |-> <<>>],
      [inline |-> TRUE,  isBytes |-> TRUE,  data |-> <<k>>],
      [inline |-> TRUE,  isBytes |-> FALSE, data |-> B64OfByte(k)],
      [inline |-> TRUE,  isBytes |-> FALSE, data |-> B64Truncated(k)] }

AllParts == UNION {PartsAt(k) : k \in 1..MaxParts}

PartLists ==
    UNION { {r \in [1..n -> AllParts] : \A k \in 1..n : r[k] \in PartsAt(k)}
            : n \in 0..MaxParts }

\* How the awaited generate_content call ends: it raises, it returns a
\* response without candidates[0].content.parts, or it returns parts.
ApiOutcomes ==
    { [kind |-> "APIError", parts |-> <<>>],
      [kind |-> "Malformed", parts |-> <<>>] }
    \cup { [kind |-> "Response", parts |-> r] : r \in PartLists }

\* The position of the first part with truthy inline_data, 0 when none.
FirstInline(parts) ==
    IF \E k \in 1..Len(parts) : parts[k].inline
    THEN CHOOSE k \in 1..Len(parts) :
             parts[k].inline /\ \A j \in 1..(k - 1) : ~parts[j].inline
    ELSE 0

\* generate_image up to the write: the buffer to write, or the exception.
Decode(o) ==
    LET k == FirstInline(o.parts)
    IN  IF o.kind # "Response" THEN [ok |-> FALSE, error |-> o.kind, buffer |-> <<>>]
        ELSE IF k = 0 THEN [ok |-> FALSE, error |-> "NoImageData", buffer |-> <<>>]
        ELSE IF o.parts[k].isBytes
             THEN [ok |-> TRUE, error |-> "", buffer |-> o.parts[k].data]
        ELSE IF B64Decode(o.parts[k].data).ok
             THEN [ok |-> TRUE, error |-> "",
                   buffer |-> B64Decode(o.parts[k].data).bytes]
        ELSE [ok |-> FALSE, error |-> "DecodeError", buffer |-> <<>>]

\* ---------------------------------------------------------------- the trace
Event(ev, index, path, info, t) ==
    [ev |-> ev, index |-> index, path |-> path, info |-> info, at |-> t]

\* ------------------------------------------------------------------- Init
EnvValues == { [isNone |-> TRUE,  s |-> <<>>],
               [isNone |-> FALSE, s |-> <<>>],
               [isNone |-> FALSE, s |-> <<"x">>] }

\* The prompts tried: empty, plain, and one with a newline in it.
Prompts == { <<>>, <<"a">>, <<"a", "\n", "b">> }

\* The ticks between an earlier run's session timestamp and the start of this
\* run: none, one tick, exactly one second, one second and a tick.
Gaps == {0, 1, TicksPerSec, TicksPerSec + 1}

\* What an earlier run that took its session timestamp at t left behind.
PriorDir == SessionDirAt(prior.t)
PriorFiles ==
    LET p1 == PathJoin(PriorDir, PromptFilename)
        p2 == PathJoin(PriorDir, ImageFilename(1))
    IN  [f \in {p1, p2} |-> IF f = p1 THEN <<"stale">> ELSE <<0>>]

Init ==
    /\ API_KEY \in EnvValues
    /\ OUTPUT_DIR \in EnvValues
    /\ IMAGE_COUNT \in 0..MaxImageCount
    /\ argv \in {<<"main.py">>} \cup {<<"main.py", p>> : p \in Prompts}
    /\ \/ /\ prior = [exists |-> FALSE, t |-> 0]
          /\ now = ClockOrigin
       \/ /\ Truthy(OUTPUT_DIR)
          /\ \E t0 \in ClockOrigin..(ClockOrigin + TicksPerSec - 1), gap \in Gaps :
                /\ prior = [exists |-> TRUE, t |-> t0]
                /\ now = t0 + gap
    /\ IF prior.exists
       THEN /\ dirs = WithParents(PriorDir)
            /\ files = PriorFiles
       ELSE /\ dirs \in IF Truthy(OUTPUT_DIR) THEN {{}, {OUTPUT_DIR.s}} ELSE {{}}
            /\ files = [f \in {} |-> <<>>]
    /\ pc = "Idle"
    /\ prompt = <<>>
    /\ session_dir = <<>>
    /\ i = 0
    /\ successful_images = <<>>
    /\ exitStatus = -1
    /\ trace = <<>>

\* ---------------------------------------------------------------- actions
\* __main__'s handler of an exception that left main: print, sys.exit(1).
Fatal(error, tr) ==
    /\ trace' = Append(tr, Event("fatal", 0, <<>>, error, now))
    /\ exitStatus' = 1
    /\ pc' = "Exited"

\* python main.py: asyncio.run(main()) starts main, which prints its banner.
StartRun ==
    /\ pc = "Idle"
    /\ pc' = "Validating"
    /\ UNCHANGED <<config, now, dirs, files, prompt, session_dir, i,
                   successful_images, exitStatus, trace>>

\* validate_args testing the environment values against None only.
MutValidationErrorNoneOnly ==
    IF API_KEY.isNone THEN "GEMINI_API_KEY"
    ELSE IF OUTPUT_DIR.isNone THEN "IMAGE_OUTPUT_DIR"
    ELSE IF Len(argv) < 2 THEN "prompt"
    ELSE ""

\* validate_args: the first check that fails, "" when none does.
ValidationError ==
    IF ~Truthy(API_KEY) THEN "GEMINI_API_KEY"
    ELSE IF ~Truthy(OUTPUT_DIR) THEN "IMAGE_OUTPUT_DIR"
    ELSE IF Len(argv) < 2 THEN "prompt"
    ELSE ""

\* validate_args(), then prompt = sys.argv[1].
ValidateArgs ==
    /\ pc = "Validating"
    /\ IF ValidationError # ""
       THEN /\ trace' = Append(trace, Event("usage", 0, <<>>, ValidationError, now))
            /\ exitStatus' = 1
            /\ pc' = "Exited"
            /\ UNCHANGED prompt
       ELSE /\ prompt' = argv[2]
            /\ pc' = "EnsureDir"
            /\ UNCHANGED <<trace, exitStatus>>
    /\ UNCHANGED <<config, now, dirs, files, session_dir, i, successful_images>>

\* ensure_output_directory(): mkdir when the directory does not exist; the
\* mkdir may raise OSError, which leaves main.
EnsureOutputDirectory ==
    /\ pc = "EnsureDir"
    /\ IF OUTPUT_DIR.s \in dirs
       THEN /\ pc' = "CreateSession"
            /\ UNCHANGED <<dirs, trace, exitStatus>>
       ELSE \E ok \in BOOLEAN :
              IF ok
              THEN /\ dirs' = dirs \cup WithParents(OUTPUT_DIR.s)
                   /\ trace' = Append(trace, Event("mkdir", 0, OUTPUT_DIR.s, "created", now))
                   /\ pc' = "CreateSession"
                   /\ UNCHANGED exitStatus
              ELSE /\ Fatal("OSError", Append(trace,
                              Event("oserror", 0, OUTPUT_DIR.s, "mkdir", now)))
                   /\ UNCHANGED dirs
    /\ UNCHANGED <<config, now, files, prompt, session_dir, i, successful_images>>

\* create_timestamped_directory(): the name from the clock, mkdir with
\* exist_ok=True (an existing directory is taken as it is).
CreateTimestampedDirectory ==
    /\ pc = "CreateSession"
    /\ LET dir == PathJoin(OUTPUT_DIR.s, Timestamp(now))
       IN  IF dir \in dirs
           THEN /\ session_dir' = dir
                /\ trace' = Append(trace, Event("mkdir", 0, dir, "exists", now))
                /\ pc' = "SavePrompt"
                /\ UNCHANGED <<dirs, exitStatus>>
           ELSE \E ok \in BOOLEAN :
                  IF ok
                  THEN /\ dirs' = dirs \cup WithParents(dir)
                       /\ session_dir' = dir
                       /\ trace' = Append(trace, Event("mkdir", 0, dir, "created", now))
                       /\ pc' = "SavePrompt"
                       /\ UNCHANGED exitStatus
                  ELSE /\ Fatal("OSError", Append(trace,
                                  Event("oserror", 0, dir, "mkdir", now)))
                       /\ UNCHANGED <<dirs, session_dir>>
    /\ UNCHANGED <<config, now, files, prompt, i, successful_images>>

\* save_prompt_file's text: one "key: value" line per field, joined by "\n".
Metadata(dir, p, t) ==
    Join(<< <<"Prompt: ">> \o p,
            <<"Generated: ">> \o IsoFormat(t),
            <<"Model: gemini-2.5-flash-image">>,
            <<"Count: ">> \o Str(IMAGE_COUNT),
            <<"Aspect Ratio: 3:2">>,
            <<"Image Size: 1K">>,
            <<"Temperature: 0.2">>,
            <<"Top P: 0.95">>,
            <<"Output Directory: ">> \o dir >>)

\* The trace after a write to path p that ended as w: the file touched, the
\* OSError raised.
Written(tr, p, index, w, t) ==
    IF w = "ok" THEN Append(tr, Event("write", index, p, "ok", t))
    ELSE IF w = "open_failed" THEN Append(tr, Event("oserror", index, p, "open", t))
    ELSE Append(Append(tr, Event("write", index, p, "truncated", t)),
                Event("oserror", index, p, "write", t))

\* save_prompt_file with the write's OSError swallowed.
MutSaveFailedNever(w) == FALSE

\* save_prompt_file: whether write_text raised; nothing in main catches it.
SaveFailed(w) == w # "ok"

\* for i in range(1, IMAGE_COUNT + 1): whether the loop has a first pass.
LoopStart == IF 1 <= IMAGE_COUNT THEN "Call" ELSE "Reporting"

\* save_prompt_file(session_dir, prompt); an OSError of the write leaves main.
\* Then successful_images = [] and the loop starts.
SavePromptFile ==
    /\ pc = "SavePrompt"
    /\ \E w \in WriteOutcomes :
         LET p  == PathJoin(session_dir, PromptFilename)
             tr == Written(trace, p, 0, w, now)
         IN  /\ files' = FsWrite(files, p, Metadata(session_dir, prompt, now), w)
             /\ IF ~SaveFailed(w)
                THEN /\ trace' = tr
                     /\ successful_images' = <<>>
                     /\ i' = 1
                     /\ pc' = LoopStart
                     /\ UNCHANGED exitStatus
                ELSE /\ Fatal("OSError", tr)
                     /\ UNCHANGED <<i, successful_images>>
    /\ UNCHANGED <<config, now, dirs, prompt, session_dir>>

\* generate_image up to its await: the request for image i goes out.
IssueRequest ==
    /\ pc = "Call"
    /\ trace' = Append(trace, Event("request", i, <<>>, "", now))
    /\ pc' = "Awaiting"
    /\ UNCHANGED <<config, now, dirs, files, prompt, session_dir, i,
                   successful_images, exitStatus>>

\* main: await asyncio.sleep(1)
SleepSeconds == 1

\* The pause test applied to every image, the last one too.
MutPauseNeededAlways(index) == index <= IMAGE_COUNT

\* main: if i < IMAGE_COUNT: await asyncio.sleep(1)
PauseNeeded(index) == index < IMAGE_COUNT

\* The loop left at the first failed image.
MutAfterBodyStopOnFailure(ok) ==
    IF ~ok THEN [pc |-> "Reporting", i |-> i]
    ELSE IF PauseNeeded(i) THEN [pc |-> "Sleeping", i |-> i]
    ELSE IF i < IMAGE_COUNT THEN [pc |-> "Call", i |-> i + 1]
    ELSE [pc |-> "Reporting", i |-> i]

\* A failed image asked for again.
MutAfterBodyRetry(ok) ==
    IF ~ok THEN [pc |-> "Call", i |-> i]
    ELSE IF PauseNeeded(i) THEN [pc |-> "Sleeping", i |-> i]
    ELSE IF i < IMAGE_COUNT THEN [pc |-> "Call", i |-> i + 1]
    ELSE [pc |-> "Reporting", i |-> i]

\* Where main goes after generate_image returned for index i, whatever it
\* returned: to the sleep, to the next index, or out of the loop.
AfterBody(ok) ==
    IF PauseNeeded(i) THEN [pc |-> "Sleeping", i |-> i]
    ELSE IF i < IMAGE_COUNT THEN [pc |-> "Call", i |-> i + 1]
    ELSE [pc |-> "Reporting", i |-> i]

\* generate_image from the end of its await to its return, and main's loop
\* body after it: the response is decoded and written, every exception is
\* caught, printed and turned into None; a path returned is appended.
CompleteRequest ==
    /\ pc = "Awaiting"
    /\ \E o \in ApiOutcomes, w \in WriteOutcomes :
         LET r    == Decode(o)
             p    == PathJoin(session_dir, ImageFilename(i))
             ok   == r.ok /\ w = "ok"
             err  == IF r.ok THEN "OSError" ELSE r.error
             tr1  == IF r.ok THEN Written(trace, p, i, w, now) ELSE trace
             tr2  == IF ok THEN tr1
                     ELSE Append(tr1, Event("failed", i, <<>>, err, now))
         IN  \* no write is tried when there is nothing to write
             /\ (r.ok \/ w = "ok")
             /\ files' = IF r.ok THEN FsWrite(files, p, r.buffer, w) ELSE files
             /\ trace' = Append(tr2, Event("complete", i, IF ok THEN p ELSE <<>>,
                                           IF ok THEN "path" ELSE "None", now))
             /\ successful_images' =
                    IF ok THEN Append(successful_images, p) ELSE successful_images
             /\ pc' = AfterBody(ok).pc
             /\ i' = AfterBody(ok).i
    /\ UNCHANGED <<config, now, dirs, prompt, session_dir, exitStatus>>

\* await asyncio.sleep(1) returns, one second later; the loop goes to its next
\* index. (The run reads the clock before the loop only; in the model the
\* sleeps alone advance it during the loop.)
SleepDone ==
    /\ pc = "Sleeping"
    /\ now' = now + SleepSeconds * TicksPerSec
    /\ trace' = Append(trace, Event("pause", i, <<>>, "", now'))
    /\ IF i < IMAGE_COUNT
       THEN i' = i + 1 /\ pc' = "Call"
       ELSE i' = i /\ pc' = "Reporting"
    /\ UNCHANGED <<config, dirs, files, prompt, session_dir,
                   successful_images, exitStatus>>

\* The exit status always 0 once the report is printed.
MutExitCodeAlwaysZero(success_count) == 0

\* main's end: sys.exit(1) when fewer images succeeded than were asked for,
\* otherwise main returns and the process exits with 0.
ExitCode(success_count) == IF success_count < IMAGE_COUNT THEN 1 ELSE 0

\* main after the loop: print the success count, exit.
Report ==
    /\ pc = "Reporting"
    /\ LET success_count == Len(successful_images)
       IN  /\ trace' = Append(trace, Event("report", success_count, session_dir, "", now))
           /\ exitStatus' = ExitCode(success_count)
    /\ pc' = "Done"
    /\ UNCHANGED <<config, now, dirs, files, prompt, session_dir, i,
                   successful_images>>

Next ==
    \/ StartRun
    \/ ValidateArgs
    \/ EnsureOutputDirectory
    \/ CreateTimestampedDirectory
    \/ SavePromptFile
    \/ IssueRequest
    \/ CompleteRequest
    \/ SleepDone
    \/ Report

Spec == Init /\ [][Next]_vars

\* The event loop runs main whenever it can go on, and every awaited call
\* (the API request, the sleep) returns.
FairSpec == Spec /\ WF_vars(Next)

\* ------------------------------------------------------- reading the trace
Positions(ev) == {k \in 1..Len(trace) : trace[k].ev = ev}

\* The indices of the generation requests issued so far, in order.
IsRequest(e) == e.ev = "request"
RequestIndices ==
    LET reqs == SelectSeq(trace, IsRequest)
    IN  [k \in 1..Len(reqs) |-> reqs[k].index]

\* generate_image(prompt, j, dir) has returned a path / has returned None.
Succeeded(j) ==
    \E k \in Positions("complete") : trace[k].index = j /\ trace[k].info = "path"
FailedAt(j) ==
    \E k \in Positions("complete") : trace[k].index = j /\ trace[k].info = "None"

\* The session directory did not exist before this run made it.
SessionFresh ==
    \E k \in Positions("mkdir") : trace[k].path = session_dir /\ trace[k].info = "created"

\* image-NN.png, the index written with two decimal digits (indices to 99).
ExpectedImageName(j) == <<"image-", Digit(j \div 10), Digit(j % 10), ".png">>

Terminated == pc \in {"Done", "Exited"}

\* ------------------------------------------------------------------- C1
ConfigInvalid == ~Truthy(API_KEY) \/ ~Truthy(OUTPUT_DIR) \/ Len(argv) < 2

\* C1: with the API key missing or empty, or the output directory setting
\* missing or empty, or no prompt argument, the run never gets past validation:
\* all it ever does is print one usage message and exit with status 1; it
\* issues no request, makes no directory and writes no file.
C1_InvalidConfigExitsBeforeWork ==
    ConfigInvalid =>
        /\ pc \in {"Idle", "Validating", "Exited"}
        /\ session_dir = <<>>
        /\ \A k \in 1..Len(trace) : trace[k].ev = "usage"
        /\ IF pc = "Exited"
           THEN exitStatus = 1 /\ Len(trace) = 1
           ELSE exitStatus = -1 /\ trace = <<>>

\* A run with an empty (not missing) output directory setting has exited.
C1_Witness ==
    /\ Truthy(API_KEY) /\ ~OUTPUT_DIR.isNone /\ ~Truthy(OUTPUT_DIR) /\ Len(argv) = 2
    /\ pc = "Exited" /\ exitStatus = 1

\* ------------------------------------------------------------------- C2
\* C2: when a run into a fresh session directory ends with all IMAGE_COUNT
\* requests succeeded, the directory holds image-01.png .. image-NN.png and
\* prompt.txt and nothing else, and the exit status is 0.
C2_AllSucceedExactFiles ==
    (/\ pc = "Done"
     /\ SessionFresh
     /\ \A j \in 1..IMAGE_COUNT : Succeeded(j))
    => /\ FilesIn(session_dir)
            = {PathJoin(session_dir, ExpectedImageName(j)) : j \in 1..IMAGE_COUNT}
              \cup {PathJoin(session_dir, <<"prompt.txt">>)}
       /\ exitStatus = 0

C2_Witness ==
    /\ pc = "Done" /\ SessionFresh /\ IMAGE_COUNT = MaxImageCount
    /\ \A j \in 1..IMAGE_COUNT : Succeeded(j)
    /\ Cardinality(FilesIn(session_dir)) = MaxImageCount + 1

\* ------------------------------------------------------------------- C3
\* C3: whatever requests fail, a run that got to its loop ends through the
\* report, with the requests 1..IMAGE_COUNT issued in order, every succeeded
\* index's file in the session directory under that index's name, the reported
\* success count equal to the number of requests that succeeded, and exit
\* status 1 when a request failed.
C3_FailuresDoNotStopBatch ==
    /\ (Positions("request") # {} => pc # "Exited")
    /\ pc = "Done" =>
        /\ RequestIndices = [k \in 1..IMAGE_COUNT |-> k]
        /\ \A j \in 1..IMAGE_COUNT :
              /\ Succeeded(j) # FailedAt(j)
              /\ Succeeded(j) =>
                    /\ PathJoin(session_dir, ExpectedImageName(j)) \in DOMAIN files
                    /\ \E k \in Positions("complete") :
                          /\ trace[k].index = j
                          /\ trace[k].path = PathJoin(session_dir, ExpectedImageName(j))
        /\ trace[Len(trace)].ev = "report"
        /\ trace[Len(trace)].index
              = Cardinality({j \in 1..IMAGE_COUNT : Succeeded(j)})
        /\ (\E j \in 1..IMAGE_COUNT : FailedAt(j)) => exitStatus = 1

\* The first request failed, a later one succeeded, the run ended.
C3_Witness ==
    /\ pc = "Done" /\ IMAGE_COUNT = MaxImageCount
    /\ FailedAt(1) /\ Succeeded(MaxImageCount)
    /\ exitStatus = 1

\* ------------------------------------------------------------------- C4
\* C4 as stated: every OSError of the filesystem, the one of an image file's
\* write included, goes to the top-level handler next, no request follows it,
\* and the process has exited with a non-zero status.
C4_Original_EveryFsErrorFatal ==
    \A k \in Positions("oserror") :
        /\ k < Len(trace) /\ trace[k + 1].ev = "fatal"
        /\ \A m \in (k + 1)..Len(trace) : trace[m].ev # "request"
        /\ pc = "Exited" /\ exitStatus # 0

\* C4, amended: an OSError while making the base directory, the session
\* directory or prompt.txt goes to the top-level handler: it is the last thing
\* the run meets, no request is ever issued and the exit status is 1. An
\* OSError of an image file's write is caught in generate_image: it is printed
\* as that index's failure, the call returns None, the run does not exit
\* early, and it ends through the report with all requests issued and exit
\* status 1.
C4_SetupFsErrorFatalImageFsErrorCaught ==
    \A k \in Positions("oserror") :
        IF trace[k].index = 0
        THEN /\ Len(trace) = k + 1 /\ trace[k + 1].ev = "fatal"
             /\ Positions("request") = {}
             /\ pc = "Exited" /\ exitStatus = 1
        ELSE /\ trace[k].path = PathJoin(session_dir, ExpectedImageName(trace[k].index))
             /\ Len(trace) >= k + 2
             /\ trace[k + 1].ev = "failed" /\ trace[k + 1].index = trace[k].index
             /\ trace[k + 1].info = "OSError"
             /\ trace[k + 2].ev = "complete" /\ trace[k + 2].index = trace[k].index
             /\ trace[k + 2].info = "None"
             /\ Positions("fatal") = {}
             /\ pc # "Exited"
             /\ pc = "Done" =>
                   /\ RequestIndices = [j \in 1..IMAGE_COUNT |-> j]
                   /\ exitStatus = 1

\* The write of image 1 raised OSError, a later request went out and
\* succeeded, and the run ended through the report.
C4_Witness ==
    /\ pc = "Done" /\ IMAGE_COUNT = MaxImageCount
    /\ \E k \in Positions("oserror") : trace[k].index = 1
    /\ Succeeded(MaxImageCount)

\* ------------------------------------------------------------------- C5
\* The step in which a generate_image call returns.
CallReturns == pc = "Awaiting" /\ pc' # "Awaiting"

\* What a call that returned a path did to the files: that one file, named
\* after the index, is there, and every other file is as before.
WroteExactly(path) ==
    /\ path = PathJoin(session_dir, ExpectedImageName(i))
    /\ DOMAIN files' = DOMAIN files \cup {path}
    /\ \A f \in DOMAIN files \ {path} : files'[f] = files[f]

\* C5 as stated: a generate_image call that returns a path has written
\* exactly the file image-NN.png of its index, and a call that returns None has
\* created or modified no file.
C5_Original_OneFileOrNone ==
    [][CallReturns =>
          LET ret == trace'[Len(trace')]
          IN  IF ret.info = "path" THEN WroteExactly(ret.path)
              ELSE files' = files]_vars

\* What does hold: the same, for every call but one whose write raised after
\* the open had created or truncated the file.
C5_HoldsUnlessWriteRaised ==
    [][CallReturns =>
          LET ret == trace'[Len(trace')]
              cut == \E k \in (Len(trace) + 1)..Len(trace') :
                        trace'[k].ev = "oserror" /\ trace'[k].info = "write"
          IN  IF ret.info = "path" THEN WroteExactly(ret.path)
              ELSE cut \/ files' = files]_vars

\* ------------------------------------------------------------------- C6
\* text.split("\n")
RECURSIVE SplitLines(_)
SplitLines(s) ==
    IF \A k \in 1..Len(s) : s[k] # "\n" THEN <<s>>
    ELSE LET k == CHOOSE n \in 1..Len(s) :
                      s[n] = "\n" /\ \A m \in 1..(n - 1) : s[m] # "\n"
         IN  <<SubSeq(s, 1, k - 1)>> \o SplitLines(SubSeq(s, k + 1, Len(s)))

FieldKeys ==
    << "Prompt: ", "Generated: ", "Model: gemini-2.5-flash-image", "Count: ",
       "Aspect Ratio: 3:2", "Image Size: 1K", "Temperature: 0.2", "Top P: 0.95",
       "Output Directory: " >>

\* The prompt.txt this run has written in full, if it has.
PromptFileWritten ==
    \E k \in Positions("write") : trace[k].index = 0 /\ trace[k].info = "ok"

\* prompt.txt read back line by line: its nine fields, the first one's value
\* the prompt.
PromptFileIntact ==
    LET lines == SplitLines(files[PathJoin(session_dir, <<"prompt.txt">>)])
    IN  /\ Len(lines) = Len(FieldKeys)
        /\ \A k \in 1..Len(FieldKeys) : lines[k][1] = FieldKeys[k]
        /\ Tail(lines[1]) = prompt

\* C6 as stated: whatever the prompt, prompt.txt's first line is the field
\* "Prompt: " with the exact prompt as its value, and the other lines are the
\* other eight fields.
C6_Original_PromptOnFirstLine == PromptFileWritten => PromptFileIntact

\* What does hold: the same, for every prompt without a newline in it.
C6_HoldsWithoutNewline ==
    (PromptFileWritten /\ \A k \in 1..Len(prompt) : prompt[k] # "\n")
        => PromptFileIntact

\* ------------------------------------------------------------------- C7
IsImageFile(f) == f[Len(session_dir) + 2] = "image-"

\* C7: from the moment a run is at its loop, and so whenever a request has
\* been issued, until it ends, prompt.txt is in the session directory, it is
\* the only file there that is not an image file, and it was written before
\* the first request.
C7_PromptFileThroughGeneration ==
    (pc \in {"Call", "Awaiting", "Sleeping", "Reporting", "Done"}
        \/ Positions("request") # {})
    => LET p == PathJoin(session_dir, <<"prompt.txt">>)
       IN  /\ p \in DOMAIN files
           /\ {f \in FilesIn(session_dir) : ~IsImageFile(f)} = {p}
           /\ \E k \in Positions("write") :
                 /\ trace[k].path = p /\ trace[k].info = "ok"
                 /\ \A m \in Positions("request") : k < m

\* Every request failed: the fresh session directory holds prompt.txt alone.
C7_Witness ==
    /\ pc = "Done" /\ IMAGE_COUNT = MaxImageCount /\ SessionFresh
    /\ \A j \in 1..IMAGE_COUNT : FailedAt(j)
    /\ FilesIn(session_dir) = {PathJoin(session_dir, <<"prompt.txt">>)}

\* ------------------------------------------------------------------- C8
\* C8: an earlier run took its session timestamp at prior.t and this run takes
\* its own at t, the clock not having gone back. The two directory names are
\* equal exactly when the two times lie in the same whole second; so when the
\* times are more than one second apart the names differ, and then nothing this
\* run writes lies in the earlier run's directory, whose files stay as they
\* were, and everything it writes lies in its own.
C8_DistinctSessionDirectories ==
    \A k \in Positions("mkdir") :
        (prior.exists /\ trace[k].path = session_dir) =>
            LET t == trace[k].at
            IN  /\ t >= prior.t
                /\ (session_dir = PriorDir)
                      <=> (t \div TicksPerSec = prior.t \div TicksPerSec)
                /\ t - prior.t > TicksPerSec =>
                      /\ session_dir # PriorDir
                      /\ \A f \in DOMAIN PriorFiles :
                            f \in DOMAIN files /\ files[f] = PriorFiles[f]
                      /\ \A m \in Positions("write") :
                            /\ ~InDir(trace[m].path, PriorDir)
                            /\ InDir(trace[m].path, session_dir)

\* A run that started more than a second after an earlier one has written all
\* its images and ended.
C8_Witness ==
    /\ prior.exists /\ pc = "Done"
    /\ Len(successful_images) = MaxImageCount
    /\ \E k \in Positions("mkdir") :
          trace[k].path = session_dir /\ trace[k].at - prior.t > TicksPerSec

\* ------------------------------------------------------------------- C9
IsApiEvent(e) == e.ev \in {"request", "complete", "pause"}
ApiTrace == SelectSeq(trace, IsApiEvent)

\* C9: the requests, their completions and the pauses come in the order
\* request 1, completion 1, pause, request 2, completion 2, pause, ...: a
\* pause ends no sooner than one second after the completion before it and the
\* next request goes out after it, at most one request is in flight, and a
\* run of N >= 1 images ends with N requests, N completions and N - 1 pauses,
\* the completion of request N last.
C9_SequentialWithPauses ==
    LET a == ApiTrace
        inflight == Cardinality(Positions("request")) - Cardinality(Positions("complete"))
    IN  /\ \A k \in 1..Len(a) :
              LET j == (k - 1) \div 3 + 1
                  m == (k - 1) % 3
              IN  /\ j <= IMAGE_COUNT
                  /\ m = 0 => /\ a[k].ev = "request" /\ a[k].index = j
                              /\ k > 1 => /\ a[k].at >= a[k - 1].at
                                          /\ a[k].at >= a[k - 2].at + TicksPerSec
                  /\ m = 1 => a[k].ev = "complete" /\ a[k].index = j
                  /\ m = 2 => /\ a[k].ev = "pause"
                              /\ a[k].at >= a[k - 1].at + TicksPerSec
        /\ inflight = IF pc = "Awaiting" THEN 1 ELSE 0
        /\ (pc = "Done" /\ IMAGE_COUNT >= 1) =>
              /\ Len(a) = 3 * IMAGE_COUNT - 1
              /\ Cardinality(Positions("pause")) = IMAGE_COUNT - 1
              /\ a[Len(a)].ev = "complete"

\* A run of the most images, with its pauses, has ended.
C9_Witness ==
    /\ pc = "Done" /\ IMAGE_COUNT = MaxImageCount
    /\ Cardinality(Positions("pause")) = MaxImageCount - 1
    /\ Cardinality(Positions("pause")) >= 1

\* ------------------------------------------------------------------ C10
\* Idle, Validating, PreparingDirectories, Generating, Reporting, Done; an
\* exit before the loop (validation, a fatal error) is the last.
Phase(p) ==
    CASE p = "Idle" -> 0
      [] p = "Validating" -> 1
      [] p \in {"EnsureDir", "CreateSession", "SavePrompt"} -> 2
      [] p \in {"Call", "Awaiting", "Sleeping"} -> 3
      [] p = "Reporting" -> 4
      [] p = "Done" -> 5
      [] p = "Exited" -> 6

StepForward ==
    /\ \/ Phase(pc') = Phase(pc)
       \/ Phase(pc') = Phase(pc) + 1 /\ pc' # "Exited"
       \/ Phase(pc) = 2 /\ Phase(pc') = 4 /\ IMAGE_COUNT = 0
       \/ pc' = "Exited" /\ Phase(pc) \in {1, 2}
    /\ Phase(pc') = 3 =>
          /\ i' \in 1..IMAGE_COUNT
          /\ IF Phase(pc) = 3 THEN i' \in {i, i + 1} ELSE i' = 1
    /\ (pc = "Call" /\ pc' = "Awaiting") => i = Cardinality(Positions("request")) + 1
    /\ (Phase(pc) = 3 /\ Phase(pc') = 4) => i = IMAGE_COUNT
    /\ pc' = "Done" => exitStatus' \in {0, 1}
    /\ pc' = "Exited" => exitStatus' = 1

\* C10: a run goes through its phases forwards only, Generating with the
\* index going up from 1 to IMAGE_COUNT by one and no index asked for twice,
\* and, every awaited call returning, it ends: Done with exit status 0 or 1,
\* or an exit before the loop with status 1.
C10_ForwardAndTerminates == [][StepForward]_vars /\ <>Terminated

\* A run of the most images has gone through every phase.
C10_Witness ==
    /\ pc = "Done" /\ IMAGE_COUNT = MaxImageCount /\ i = MaxImageCount
    /\ Cardinality(Positions("request")) = MaxImageCount

====
